---------------------------- MODULE Spec2Model ----------------------------
(***************************************************************************)
(* secure_counter (apps/secure_counter/src/main.c): a periodic kernel      *)
(* timer submits a work item; the work handler stamps a message with the   *)
(* sequence counter and the uptime and puts it, without waiting, on        *)
(* counter_q; a user-mode thread receives from counter_q forever; three    *)
(* shell commands (get, set, attack) run in the shell thread.              *)
(*                                                                         *)
(* Threads and contexts: the timer ISR, the system work queue thread, the  *)
(* consumer thread (K_USER), the shell thread. Every interleaving of their *)
(* steps is a behaviour of the model. After its set-up (Init), main() only *)
(* sleeps and reads seq_cnt and period_ms for a log line.                  *)
(***************************************************************************)
EXTENDS Integers, Sequences, FiniteSets, TLC

VARIABLES
    now,            \* k_uptime_get(): milliseconds since boot
    period_ms,      \* static uint32_t period_ms
    seq_cnt,        \* static atomic_t seq_cnt, as the uint32_t the code reads
    counter_q,      \* K_MSGQ_DEFINE(counter_q, ..., 16, 4): messages queued
    secret_q,       \* K_MSGQ_DEFINE(secret_q, ..., 1, 4): messages queued
    grants,         \* kernel object permissions: thread -> objects granted
    tick_timer,     \* struct k_timer tick_timer
    tick_work,      \* K_WORK_DEFINE(tick_work, ...): times queued, handler pc, local m
    consumer,       \* consumer_thread: pc and local m
    shell,          \* the shell thread: pc, argv, locals, return code, output
    hist            \* history of the run (what has been observed so far)

vars == <<now, period_ms, seq_cnt, counter_q, secret_q, grants, tick_timer,
          tick_work, consumer, shell, hist>>

-----------------------------------------------------------------------------
(* Bounds of the model                                                     *)

\* Time passes in steps of ElapseStep ms, or up to the next timer expiry. The
\* clock is followed for the first MaxTime (CmdTime) ms of a run: a later
\* instant reads as that bound, so the clock never goes back.
ElapseStep == 5
\* Long runs (Spec): clock bound, timer expiries and shell commands in a run.
MaxTime == 5
MaxFires == 18
MaxCmds == 1
\* Short runs (CmdSpec): the same three bounds.
CmdTime == 20
CmdFires == 3
CmdCmds == 2
\* Fair runs (FairSpec): the same three bounds.
FairTime == 10
FairFires == 2
FairCmds == 2
\* Width in bits of the sequence number (uint32_t in the program; narrowed so
\* that the wrap-around is within reach).
SeqBits == 3

-----------------------------------------------------------------------------
(* Program constants                                                       *)

COUNTER_Q_MAX_MSGS == 16
SECRET_Q_MAX_MSGS == 1
PERIOD_MS_INIT == 100
PERIOD_MIN == 10
PERIOD_MAX == 10000
EINVAL == 22
ENOMSG == 35
\* long is 32 bits wide on the documented target (qemu_x86)
LONG_MAX == 2147483647
LONG_MIN == -LONG_MAX - 1

SeqMod == 2 ^ SeqBits

Max(a, b) == IF a >= b THEN a ELSE b

\* msg_t; NoMsg is the uninitialised local (never read by the code)
msg_t(s, t) == [seq |-> s, ts_ms |-> t]
NoMsg == msg_t(-1, -1)

-----------------------------------------------------------------------------
(* strtol(nptr, &end, 10) and decimal formatting                           *)

DigitVal ==
    ("0" :> 0) @@ ("1" :> 1) @@ ("2" :> 2) @@ ("3" :> 3) @@ ("4" :> 4) @@
    ("5" :> 5) @@ ("6" :> 6) @@ ("7" :> 7) @@ ("8" :> 8) @@ ("9" :> 9)
IsDigit(c) == c \in DOMAIN DigitVal
IsSpace(c) == c \in {" ", "\t"}

RECURSIVE SkipSpace(_, _)
SkipSpace(s, i) ==
    IF i <= Len(s) /\ IsSpace(s[i]) THEN SkipSpace(s, i + 1) ELSE i

\* Accumulate the digits from position i; acc saturates at LONG_MAX (ovf).
RECURSIVE Accumulate(_, _, _, _)
Accumulate(s, i, acc, ovf) ==
    IF i <= Len(s) /\ IsDigit(s[i])
    THEN LET d == DigitVal[s[i]]
         IN  IF ovf \/ acc > (LONG_MAX - d) \div 10
             THEN Accumulate(s, i + 1, LONG_MAX, TRUE)
             ELSE Accumulate(s, i + 1, acc * 10 + d, FALSE)
    ELSE [pos |-> i, acc |-> acc, ovf |-> ovf]

\* strtol: the value, and end as the index of the first character not
\* consumed (Len(s) + 1 is the terminating NUL; 1 when no digits were found).
strtol(s) ==
    LET i   == SkipSpace(s, 1)
        neg == i <= Len(s) /\ s[i] = "-"
        j   == IF i <= Len(s) /\ s[i] \in {"-", "+"} THEN i + 1 ELSE i
        r   == Accumulate(s, j, 0, FALSE)
    IN  IF r.pos = j
        THEN [val |-> 0, end |-> 1]
        ELSE [val |-> IF r.ovf THEN (IF neg THEN LONG_MIN ELSE LONG_MAX)
                      ELSE (IF neg THEN -r.acc ELSE r.acc),
              end |-> r.pos]

DigitChar == <<"0", "1", "2", "3", "4", "5", "6", "7", "8", "9">>

\* The decimal numeral of v >= 0, as the operator types it.
RECURSIVE Decimal(_)
Decimal(v) ==
    IF v < 10 THEN <<DigitChar[v + 1]>>
    ELSE Append(Decimal(v \div 10), DigitChar[(v % 10) + 1])

-----------------------------------------------------------------------------
(* Kernel objects, threads and the permission check of a system call       *)

Threads == {"main", "sysworkq", "shell_uart", "consumer_user"}

\* Threads created with K_USER: only consumer_user (k_thread_create in main).
UserThreads == {"consumer_user"}

\* (mutant) the grant made at startup covers secret_q as well
M_k_object_access_all_grant_both(g, obj) ==
    [t \in Threads |-> g[t] \cup {obj, "secret_q"}]

\* k_object_access_all_grant(obj): every thread is granted obj.
k_object_access_all_grant(g, obj) == [t \in Threads |-> g[t] \cup {obj}]

\* The check made on entry to a system call on obj: a supervisor thread
\* calls the implementation directly; a user thread needs the grant.
MayAccess(thread, obj) == thread \notin UserThreads \/ obj \in grants[thread]

\* (mutant) k_msgq_put without the capacity check
M_k_msgq_put_unbounded(q, max, m) == [rc |-> 0, q |-> Append(q, m)]

\* (mutant) k_msgq_put on a full queue overwrites the oldest message
M_k_msgq_put_drop_oldest(q, max, m) ==
    IF Len(q) < max THEN [rc |-> 0, q |-> Append(q, m)]
    ELSE [rc |-> 0, q |-> Append(Tail(q), m)]

\* (mutant) k_msgq_put inserting at the head of the queue
M_k_msgq_put_front(q, max, m) ==
    IF Len(q) < max THEN [rc |-> 0, q |-> <<m>> \o q]
    ELSE [rc |-> -ENOMSG, q |-> q]

\* k_msgq_put(q, m, K_NO_WAIT) on a queue of capacity max
k_msgq_put(q, max, m) ==
    IF Len(q) < max THEN [rc |-> 0, q |-> Append(q, m)]
    ELSE [rc |-> -ENOMSG, q |-> q]

\* (mutant) k_msgq_get taking the newest message instead of the oldest
M_k_msgq_get_newest(q, m) ==
    IF Len(q) > 0
    THEN [rc |-> 0, q |-> SubSeq(q, 1, Len(q) - 1), m |-> q[Len(q)]]
    ELSE [rc |-> -ENOMSG, q |-> q, m |-> m]

\* k_msgq_get(q, &m, K_NO_WAIT); m is left untouched when q is empty
k_msgq_get(q, m) ==
    IF Len(q) > 0 THEN [rc |-> 0, q |-> Tail(q), m |-> Head(q)]
    ELSE [rc |-> -ENOMSG, q |-> q, m |-> m]

\* (mutant) k_timer_start with K_NO_WAIT as the period: a one-shot timer
M_k_timer_start_oneshot(duration, period) ==
    [running |-> TRUE, duration |-> duration, period |-> 0,
     remaining |-> duration]

\* k_timer_start(timer, K_MSEC(duration), K_MSEC(period))
k_timer_start(duration, period) ==
    [running |-> TRUE, duration |-> duration, period |-> period,
     remaining |-> duration]

\* k_timer_stop(timer): the pending expiry is aborted
k_timer_stop(t) == [t EXCEPT !.running = FALSE, !.remaining = 0]

\* (mutant) k_work_submit queueing the item once more on every call
M_k_work_submit_requeue(w) == [w EXCEPT !.pending = @ + 1]

\* k_work_submit(work): queues the item unless it is queued already;
\* pending is the number of times the item is in the work queue
k_work_submit(w) == IF w.pending > 0 THEN w ELSE [w EXCEPT !.pending = 1]

\* (mutant) atomic_get in place of atomic_inc: the counter stays
M_atomic_inc_stuck(c) == c

\* atomic_inc(&seq_cnt) as seen through the (uint32_t) casts
atomic_inc(c) == (c + 1) % SeqMod

-----------------------------------------------------------------------------
(* Initial state: main() has granted counter_q, created the consumer and    *)
(* started the timer (main.c lines 121-138).                                *)

NoOutput == [text |-> "", a |-> 0, b |-> 0]

Init ==
    /\ now = 0
    /\ period_ms = PERIOD_MS_INIT
    /\ seq_cnt = 0
    /\ counter_q = <<>>
    /\ secret_q = <<>>
    /\ grants = k_object_access_all_grant([t \in Threads |-> {}], "counter_q")
    /\ tick_timer = k_timer_start(PERIOD_MS_INIT, PERIOD_MS_INIT)
    /\ tick_work = [pending |-> 0, pc |-> "idle", m |-> NoMsg]
    /\ consumer = [pc |-> "get", m |-> NoMsg]
    /\ shell = [pc |-> "idle", argv |-> <<>>, v |-> 0, rc |-> 0, ret |-> 0,
                out |-> NoOutput, cmds |-> 0]
    /\ hist = [fires |-> 0, attempts |-> 0, prev |-> NoMsg, prevmax |-> -1,
               dropped |-> FALSE, attacked |-> FALSE, sets_ok |-> 0,
               last_set |-> <<>>, drops |-> 0, enq |-> <<>>, nrecv |-> 0]

-----------------------------------------------------------------------------
(* Time and the timer ISR                                                  *)

\* ElapseStep ms pass and no timer expires.
Elapse(maxTime) ==
    /\ now + ElapseStep <= maxTime
    /\ tick_timer.running => tick_timer.remaining > ElapseStep
    /\ now' = now + ElapseStep
    /\ tick_timer' = IF tick_timer.running
                     THEN [tick_timer EXCEPT !.remaining = @ - ElapseStep]
                     ELSE tick_timer
    /\ UNCHANGED <<period_ms, seq_cnt, counter_q, secret_q, grants, tick_work,
                   consumer, shell, hist>>

\* The timer expires: it is re-armed with its period and the ISR runs
\* tick_timer_handler, which submits tick_work.
tick_timer_handler(maxFires, maxTime) ==
    /\ tick_timer.running
    /\ hist.fires < maxFires
    /\ now' = IF tick_timer.remaining >= maxTime - now THEN maxTime
              ELSE now + tick_timer.remaining
    /\ tick_timer' = [tick_timer EXCEPT !.remaining = tick_timer.period]
    /\ tick_work' = k_work_submit(tick_work)
    /\ hist' = [hist EXCEPT !.fires = @ + 1]
    /\ UNCHANGED <<period_ms, seq_cnt, counter_q, secret_q, grants, consumer,
                   shell>>

-----------------------------------------------------------------------------
(* The system work queue thread running tick_work_handler                  *)

\* (mutant) the work queue enters the handler and leaves the item queued
M_tick_work_run_keeps_queued ==
    /\ tick_work.pending > 0
    /\ tick_work.pc = "idle"
    /\ tick_work' = [pending |-> tick_work.pending, pc |-> "build",
                     m |-> NoMsg]
    /\ UNCHANGED <<now, period_ms, seq_cnt, counter_q, secret_q, grants,
                   tick_timer, consumer, shell, hist>>

\* The work queue takes the queued item and enters the handler.
tick_work_run ==
    /\ tick_work.pending > 0
    /\ tick_work.pc = "idle"
    /\ tick_work' = [pending |-> tick_work.pending - 1, pc |-> "build",
                     m |-> NoMsg]
    /\ UNCHANGED <<now, period_ms, seq_cnt, counter_q, secret_q, grants,
                   tick_timer, consumer, shell, hist>>

\* (mutant) the message is stamped with the value after the increment
M_tick_work_handler_seq_post ==
    /\ tick_work.pc = "build"
    /\ tick_work.m.seq = -1
    /\ tick_work' = [tick_work EXCEPT !.m.seq = atomic_inc(seq_cnt)]
    /\ seq_cnt' = atomic_inc(seq_cnt)
    /\ hist' = [hist EXCEPT !.attempts = @ + 1]
    /\ UNCHANGED <<now, period_ms, counter_q, secret_q, grants, tick_timer,
                   consumer, shell>>

\* .seq = (uint32_t)atomic_inc(&seq_cnt): the value before the increment
tick_work_handler_seq ==
    /\ tick_work.pc = "build"
    /\ tick_work.m.seq = -1
    /\ tick_work' = [tick_work EXCEPT !.m.seq = seq_cnt]
    /\ seq_cnt' = atomic_inc(seq_cnt)
    /\ hist' = [hist EXCEPT !.attempts = @ + 1]
    /\ UNCHANGED <<now, period_ms, counter_q, secret_q, grants, tick_timer,
                   consumer, shell>>

\* .ts_ms = k_uptime_get(); the two initialisers are evaluated in either order
tick_work_handler_ts ==
    /\ tick_work.pc = "build"
    /\ tick_work.m.ts_ms = -1
    /\ tick_work' = [tick_work EXCEPT !.m.ts_ms = now]
    /\ UNCHANGED <<now, period_ms, seq_cnt, counter_q, secret_q, grants,
                   tick_timer, consumer, shell, hist>>

\* k_msgq_put(&counter_q, &m, K_NO_WAIT); LOG_WRN when it fails; return
tick_work_handler_put ==
    /\ tick_work.pc = "build"
    /\ tick_work.m.seq # -1
    /\ tick_work.m.ts_ms # -1
    /\ LET r == k_msgq_put(counter_q, COUNTER_Q_MAX_MSGS, tick_work.m)
       IN  /\ counter_q' = r.q
           /\ hist' = [hist EXCEPT
                         !.dropped = @ \/ r.rc # 0,
                         !.drops = IF r.rc # 0 THEN @ + 1 ELSE @,
                         !.enq = IF r.rc = 0 THEN Append(@, tick_work.m)
                                 ELSE @]
    /\ tick_work' = [tick_work EXCEPT !.pc = "idle", !.m = NoMsg]
    /\ UNCHANGED <<now, period_ms, seq_cnt, secret_q, grants, tick_timer,
                   consumer, shell>>

-----------------------------------------------------------------------------
(* consumer_thread (user mode)                                             *)

\* k_msgq_get(&counter_q, &m, K_FOREVER): permission check, then wait for a
\* message and take it.
consumer_thread_get ==
    /\ consumer.pc = "get"
    /\ IF MayAccess("consumer_user", "counter_q")
       THEN /\ Len(counter_q) > 0
            /\ LET r == k_msgq_get(counter_q, consumer.m)
               IN  /\ counter_q' = r.q
                   /\ consumer' = [pc |-> "log", m |-> r.m]
            /\ hist' = [hist EXCEPT !.prev = consumer.m,
                                    !.prevmax = Max(@, consumer.m.seq),
                                    !.nrecv = @ + 1]
       ELSE /\ consumer' = [consumer EXCEPT !.pc = "faulted"]
            /\ UNCHANGED <<counter_q, hist>>
    /\ UNCHANGED <<now, period_ms, seq_cnt, secret_q, grants, tick_timer,
                   tick_work, shell>>

\* (mutant) the consumer returns from its entry function after one message
M_consumer_thread_log_returns ==
    /\ consumer.pc = "log"
    /\ consumer' = [consumer EXCEPT !.pc = "returned"]
    /\ UNCHANGED <<now, period_ms, seq_cnt, counter_q, secret_q, grants,
                   tick_timer, tick_work, shell, hist>>

\* LOG_INF("[USER] got seq=%u at %lld ms", ...) and back to the top of the loop
consumer_thread_log ==
    /\ consumer.pc = "log"
    /\ consumer' = [consumer EXCEPT !.pc = "get"]
    /\ UNCHANGED <<now, period_ms, seq_cnt, counter_q, secret_q, grants,
                   tick_timer, tick_work, shell, hist>>

-----------------------------------------------------------------------------
(* Shell commands: handlers run in the shell thread, one command at a time  *)

\* Command lines the operator types: argv of "counter set ...".
SetValues == {5, 10, 250, 10000, 10001}
Numerals == {Decimal(v) : v \in SetValues}
OtherArgs ==
    { <<>>,                                   \* ""
      <<"a", "b", "c">>,                      \* "abc"
      <<"1", "0", "x">>,                      \* "10x"
      <<"-", "5">>,                           \* "-5"
      <<" ", "1", "0">>,                      \* " 10" (quoted)
      <<"9", "9", "9", "9", "9", "9", "9", "9", "9", "9", "9">> }
SetArgvs ==
    {<<"set">>} \cup {<<"set", a>> : a \in Numerals \cup OtherArgs}
        \cup {<<"set", Decimal(10), Decimal(10000)>>}
\* The set commands of the long runs and the fair runs: one accepted, one
\* rejected
FewArgvs == {<<"set", Decimal(10)>>, <<"set", Decimal(5)>>}

Output(text, a, b) == [text |-> text, a |-> a, b |-> b]

\* The shell thread is ready to run the next command line.
ShellReady(maxCmds) == shell.pc = "idle" /\ shell.cmds < maxCmds

Enter(argv) == [shell EXCEPT !.argv = argv, !.cmds = @ + 1, !.v = 0, !.rc = 0]

\* cmd_counter_get: the whole handler
cmd_counter_get(maxCmds) ==
    /\ ShellReady(maxCmds)
    /\ shell' = [Enter(<<"get">>) EXCEPT
                    !.out = Output("period=%u ms, seq=%u", period_ms, seq_cnt),
                    !.ret = 0]
    /\ UNCHANGED <<now, period_ms, seq_cnt, counter_q, secret_q, grants,
                   tick_timer, tick_work, consumer, hist>>

\* (mutants) line 87 with v <= 10, without the test of *end, without v > 10000
M_invalid_ms_exclusive(arg) ==
    LET r == strtol(arg)
    IN  arg = <<>> \/ r.end <= Len(arg) \/ r.val <= PERIOD_MIN \/ r.val > PERIOD_MAX
M_invalid_ms_no_end(arg) ==
    LET r == strtol(arg)
    IN  arg = <<>> \/ r.val < PERIOD_MIN \/ r.val > PERIOD_MAX
M_invalid_ms_no_upper(arg) ==
    LET r == strtol(arg)
    IN  arg = <<>> \/ r.end <= Len(arg) \/ r.val < PERIOD_MIN

\* The condition of line 87 on argv[1] and v = strtol(argv[1], &end, 10)
invalid_ms(arg) ==
    LET r == strtol(arg)
    IN  arg = <<>> \/ r.end <= Len(arg) \/ r.val < PERIOD_MIN \/ r.val > PERIOD_MAX

\* cmd_counter_set, lines 81-90: argument count, strtol, validation
cmd_counter_set(maxCmds, argvs) ==
    /\ ShellReady(maxCmds)
    /\ \E argv \in argvs :
         IF Len(argv) # 2
         THEN shell' = [Enter(argv) EXCEPT
                           !.out = Output("usage: counter set <ms>", 0, 0),
                           !.ret = -EINVAL]
         ELSE IF invalid_ms(argv[2])
         THEN shell' = [Enter(argv) EXCEPT
                           !.out = Output("invalid <ms> (10..10000)", 0, 0),
                           !.ret = -EINVAL]
         ELSE shell' = [Enter(argv) EXCEPT !.pc = "set_store",
                                           !.v = strtol(argv[2]).val]
    /\ hist' = [hist EXCEPT !.last_set = shell'.argv]
    /\ UNCHANGED <<now, period_ms, seq_cnt, counter_q, secret_q, grants,
                   tick_timer, tick_work, consumer>>

\* (mutant) storing the period also clears the sequence counter
M_cmd_counter_set_store_resets ==
    /\ shell.pc = "set_store"
    /\ period_ms' = shell.v
    /\ seq_cnt' = 0
    /\ shell' = [shell EXCEPT !.pc = "set_stop"]
    /\ UNCHANGED <<now, counter_q, secret_q, grants, tick_timer, tick_work,
                   consumer, hist>>

\* line 91: period_ms = (uint32_t)v
cmd_counter_set_store ==
    /\ shell.pc = "set_store"
    /\ period_ms' = shell.v
    /\ shell' = [shell EXCEPT !.pc = "set_stop"]
    /\ UNCHANGED <<now, seq_cnt, counter_q, secret_q, grants, tick_timer,
                   tick_work, consumer, hist>>

\* line 92: k_timer_stop(&tick_timer)
cmd_counter_set_stop ==
    /\ shell.pc = "set_stop"
    /\ tick_timer' = k_timer_stop(tick_timer)
    /\ shell' = [shell EXCEPT !.pc = "set_start"]
    /\ UNCHANGED <<now, period_ms, seq_cnt, counter_q, secret_q, grants,
                   tick_work, consumer, hist>>

\* lines 93-95: k_timer_start with period_ms, shell_print, return 0
cmd_counter_set_start ==
    /\ shell.pc = "set_start"
    /\ tick_timer' = k_timer_start(period_ms, period_ms)
    /\ shell' = [shell EXCEPT !.pc = "idle", !.v = 0,
                              !.out = Output("period set to %u ms", period_ms, 0),
                              !.ret = 0]
    /\ hist' = [hist EXCEPT !.sets_ok = @ + 1]
    /\ UNCHANGED <<now, period_ms, seq_cnt, counter_q, secret_q, grants,
                   tick_work, consumer>>

\* cmd_attack_try_secret, line 104: the announcement
cmd_attack_try_secret(maxCmds) ==
    /\ ShellReady(maxCmds)
    /\ shell' = [Enter(<<"attack">>) EXCEPT
                    !.pc = "attack_get",
                    !.out = Output("attempting unauthorized access to secret_q...", 0, 0)]
    /\ UNCHANGED <<now, period_ms, seq_cnt, counter_q, secret_q, grants,
                   tick_timer, tick_work, consumer, hist>>

\* (mutant) the attack's receive takes the kernel down: the timer stops
M_cmd_attack_get_halts ==
    /\ shell.pc = "attack_get"
    /\ shell' = [shell EXCEPT !.pc = "attack_print", !.rc = -ENOMSG]
    /\ tick_timer' = k_timer_stop(tick_timer)
    /\ UNCHANGED <<now, period_ms, seq_cnt, counter_q, secret_q, grants,
                   tick_work, consumer, hist>>

\* (mutant) the attack reads counter_q instead of secret_q
M_cmd_attack_get_counter_q ==
    /\ shell.pc = "attack_get"
    /\ LET r == k_msgq_get(counter_q, NoMsg)
       IN  /\ counter_q' = r.q
           /\ shell' = [shell EXCEPT !.pc = "attack_print", !.rc = r.rc]
    /\ UNCHANGED <<now, period_ms, seq_cnt, secret_q, grants, tick_timer,
                   tick_work, consumer, hist>>

\* line 107: k_msgq_get(&secret_q, &m, K_NO_WAIT), called by the thread that
\* runs the handler, which is the shell thread
cmd_attack_get ==
    /\ shell.pc = "attack_get"
    /\ IF MayAccess("shell_uart", "secret_q")
       THEN LET r == k_msgq_get(secret_q, NoMsg)
            IN  /\ secret_q' = r.q
                /\ shell' = [shell EXCEPT !.pc = "attack_print", !.rc = r.rc]
       ELSE /\ shell' = [shell EXCEPT !.pc = "faulted"]
            /\ UNCHANGED secret_q
    /\ UNCHANGED <<now, period_ms, seq_cnt, counter_q, grants, tick_timer,
                   tick_work, consumer, hist>>

\* lines 108-109: shell_print("unexpectedly returned rc=%d ..."), return 0
cmd_attack_return ==
    /\ shell.pc = "attack_print"
    /\ shell' = [shell EXCEPT
                    !.pc = "idle", !.rc = 0,
                    !.out = Output("unexpectedly returned rc=%d (should not happen)",
                                   shell.rc, 0),
                    !.ret = 0]
    /\ hist' = [hist EXCEPT !.attacked = TRUE]
    /\ UNCHANGED <<now, period_ms, seq_cnt, counter_q, secret_q, grants,
                   tick_timer, tick_work, consumer>>

-----------------------------------------------------------------------------

\* One step of a run with at most maxFires timer expiries and maxCmds commands
\* (the set commands drawn from argvs), its clock followed for maxTime ms
Step(maxTime, maxFires, maxCmds, argvs) ==
    \/ Elapse(maxTime)
    \/ tick_timer_handler(maxFires, maxTime)
    \/ tick_work_run
    \/ tick_work_handler_seq
    \/ tick_work_handler_ts
    \/ tick_work_handler_put
    \/ consumer_thread_get
    \/ consumer_thread_log
    \/ cmd_counter_get(maxCmds)
    \/ cmd_counter_set(maxCmds, argvs)
    \/ cmd_counter_set_store
    \/ cmd_counter_set_stop
    \/ cmd_counter_set_start
    \/ cmd_attack_try_secret(maxCmds)
    \/ cmd_attack_get
    \/ cmd_attack_return

Next == Step(MaxTime, MaxFires, MaxCmds, FewArgvs)
Spec == Init /\ [][Next]_vars

CmdNext == Step(CmdTime, CmdFires, CmdCmds, SetArgvs)
CmdSpec == Init /\ [][CmdNext]_vars

\* The threads are scheduled and the timer hardware runs: the timer expires
\* while it runs, the work queue thread runs the handler of a queued item to
\* its end, the shell thread runs a handler it entered to its end, and the
\* consumer takes a message that is waiting. Typing a command is the
\* operator's choice and is under no fairness.
WorkQueue ==
    \/ tick_work_run
    \/ tick_work_handler_seq
    \/ tick_work_handler_ts
    \/ tick_work_handler_put
ShellHandler ==
    \/ cmd_counter_set_store
    \/ cmd_counter_set_stop
    \/ cmd_counter_set_start
    \/ cmd_attack_get
    \/ cmd_attack_return
Consumer == consumer_thread_get \/ consumer_thread_log

FairNext == Step(FairTime, FairFires, FairCmds, FewArgvs)
FairSpec ==
    /\ Init /\ [][FairNext]_vars
    /\ WF_vars(tick_timer_handler(FairFires, FairTime))
    /\ WF_vars(WorkQueue)
    /\ WF_vars(ShellHandler)
    /\ WF_vars(Consumer)

-----------------------------------------------------------------------------
(* C1. Invoking attack terminates the restricted context: the receive on    *)
(* secret_q faults, so the statement after it is never reached, and once an *)
(* attack has been made the consumer context is faulted.                    *)
C1_AttackFaults ==
    /\ shell.pc # "attack_print"
    /\ hist.attacked => consumer.pc = "faulted"

(* C2. After an attack the privileged side keeps operating: the timer keeps *)
(* expiring and the sequence counter keeps advancing (until the run's bound *)
(* on timer expiries is used up), and a get issued afterwards returns 0.    *)
RunOver(maxFires) ==
    hist.fires = maxFires /\ tick_work.pending = 0 /\ tick_work.pc = "idle"
C2_PrivilegedSideLives ==
    /\ \A f \in 0..FairFires :
         (hist.attacked /\ hist.fires = f) ~> (hist.fires > f \/ f = FairFires)
    /\ \A k \in 0..FairFires :
         (hist.attacked /\ hist.attempts = k)
             ~> (hist.attempts > k \/ RunOver(FairFires))
    /\ [](hist.attacked /\ shell.pc = "idle" /\ shell.argv = <<"get">>
            => shell.ret = 0 /\ shell.out.a = period_ms)
C2_Witness ==
    /\ hist.attacked
    /\ shell.argv = <<"get">>
    /\ shell.out.b > 0
    /\ seq_cnt > shell.out.b

(* C3. Each message the consumer takes from counter_q has a seq greater     *)
(* than that of every message it took before.                               *)
C3_SeqStrictlyIncreasing ==
    consumer.m # NoMsg => consumer.m.seq > hist.prevmax
(* C3 as amended: the same, as long as the sequence counter has not wrapped *)
(* (no more than 2^SeqBits production attempts so far).                     *)
C3_SeqIncreasingUntilWrap ==
    hist.attempts <= SeqMod => C3_SeqStrictlyIncreasing
C3_Witness ==
    /\ hist.attempts <= SeqMod
    /\ hist.prev # NoMsg
    /\ consumer.m.seq = SeqMod - 1

(* C4. counter_q never holds more than 16 messages; a put made while it is  *)
(* full is possible at once (the producer does not wait), leaves the queue  *)
(* as it is and ends the handler.                                           *)
ReadyToPut ==
    tick_work.pc = "build" /\ tick_work.m.seq # -1 /\ tick_work.m.ts_ms # -1
C4_BoundedChannel ==
    /\ [](Len(counter_q) <= COUNTER_Q_MAX_MSGS)
    /\ [](ReadyToPut => ENABLED tick_work_handler_put)
    /\ [][(ReadyToPut /\ tick_work'.pc # "build"
             /\ Len(counter_q) = COUNTER_Q_MAX_MSGS)
          => (counter_q' = counter_q /\ tick_work'.pc = "idle")]_vars
C4_Witness ==
    Len(counter_q) = COUNTER_Q_MAX_MSGS /\ hist.dropped

(* C5. For v in 10..10000, set with the numeral of v returns 0 with         *)
(* period_ms = v, and a get with no other set in between reports v.         *)
InRange(v) == PERIOD_MIN <= v /\ v <= PERIOD_MAX
C5_SetThenGet ==
    \A v \in SetValues :
        InRange(v) =>
            /\ (shell.pc = "idle" /\ shell.argv = <<"set", Decimal(v)>>)
                   => (shell.ret = 0 /\ period_ms = v)
            /\ (shell.pc = "idle" /\ shell.argv = <<"get">>
                  /\ hist.last_set = <<"set", Decimal(v)>>)
                   => (shell.ret = 0 /\ shell.out.a = v)
C5_Witness ==
    /\ shell.argv = <<"get">>
    /\ hist.last_set = <<"set", Decimal(PERIOD_MAX)>>
    /\ shell.out.a = PERIOD_MAX
    /\ shell.out.b > 0

(* C6. A set whose argument is below 10, above 10000, not a number or       *)
(* empty, or that has the wrong argument count, returns -EINVAL and changes *)
(* nothing: period, timer, sequence counter and queues stay as they were.   *)
RECURSIVE AllDigits(_, _)
AllDigits(s, i) == i > Len(s) \/ (IsDigit(s[i]) /\ AllDigits(s, i + 1))
\* s reads as a decimal integer: blanks, an optional sign, one digit or more
IsNumber(s) ==
    LET i == SkipSpace(s, 1)
        j == IF i <= Len(s) /\ s[i] \in {"-", "+"} THEN i + 1 ELSE i
    IN  j <= Len(s) /\ AllDigits(s, j)
\* The value of the digit string d, read from the left
RECURSIVE DigitsValue(_)
DigitsValue(d) ==
    IF d = <<>> THEN 0
    ELSE 10 * DigitsValue(SubSeq(d, 1, Len(d) - 1)) + DigitVal[d[Len(d)]]
RECURSIVE StripZeros(_)
StripZeros(d) ==
    IF Len(d) > 1 /\ d[1] = "0" THEN StripZeros(Tail(d)) ELSE d
\* The number s reads as lies in 10..10000 (s satisfies IsNumber)
NumberInRange(s) ==
    LET i == SkipSpace(s, 1)
        j == IF i <= Len(s) /\ s[i] \in {"-", "+"} THEN i + 1 ELSE i
        d == StripZeros(SubSeq(s, j, Len(s)))
    IN  /\ ~(i <= Len(s) /\ s[i] = "-")
        /\ Len(d) <= 5
        /\ InRange(DigitsValue(d))
BadSetInput(argv) ==
    Len(argv) # 2 \/ ~IsNumber(argv[2]) \/ ~NumberInRange(argv[2])
SetEntered ==
    shell.pc = "idle" /\ shell'.cmds = shell.cmds + 1 /\ shell'.argv[1] = "set"
C6_RejectedSetChangesNothing ==
    [][(SetEntered /\ BadSetInput(shell'.argv))
       => /\ shell'.pc = "idle"
          /\ shell'.ret = -EINVAL
          /\ UNCHANGED <<now, period_ms, seq_cnt, counter_q, secret_q, grants,
                         tick_timer, tick_work, consumer>>]_vars
C6_Witness ==
    /\ shell.pc = "idle"
    /\ shell.argv = <<"set", <<"1", "0", "x">>>>
    /\ shell.ret = -EINVAL
    /\ period_ms = PERIOD_MAX
    /\ tick_timer.remaining < PERIOD_MAX

(* C7. Of two messages the consumer takes one after the other, the later    *)
(* one's ts_ms is not below the earlier one's.                              *)
C7_TimestampsNonDecreasing ==
    hist.prev # NoMsg => consumer.m.ts_ms >= hist.prev.ts_ms
C7_Witness ==
    hist.prev # NoMsg /\ consumer.m.ts_ms > hist.prev.ts_ms

(* C8. period_ms is 100 until a set stores a value, and always lies in      *)
(* 10..10000.                                                               *)
C8_PeriodInRange ==
    /\ InRange(period_ms)
    /\ hist.last_set = <<>> => period_ms = PERIOD_MS_INIT
C8_Witness ==
    period_ms = PERIOD_MAX /\ hist.sets_ok > 0 /\ hist.fires > 0

(* C9. A successful set is one step for the timer: in no state does         *)
(* period_ms hold the new value while the timer still runs with the old     *)
(* interval.                                                                *)
C9_NoStalePeriodWindow ==
    tick_timer.running => tick_timer.period = period_ms

-----------------------------------------------------------------------------
(* The producer path: timer expiry, work item, message, channel             *)

(* C11. tick_work is in the work queue at most once. A timer expiry while   *)
(* it is queued leaves it as it is. When the work queue takes it nothing    *)
(* stays queued, however many expiries there were since it was queued, so   *)
(* the attempts made plus those still to come from the expiries so far      *)
(* never exceed the expiries.                                               *)
ToCome ==
    tick_work.pending
      + (IF tick_work.pc = "build" /\ tick_work.m.seq = -1 THEN 1 ELSE 0)
C11_HandoffCoalesced ==
    /\ [](tick_work.pending <= 1)
    /\ [][(hist'.fires # hist.fires /\ tick_work.pending > 0)
            => tick_work' = tick_work]_vars
    /\ [][(tick_work.pc = "idle" /\ tick_work'.pc = "build")
            => tick_work'.pending = 0]_vars
    /\ [](hist.attempts + ToCome <= hist.fires)
C11_Witness ==
    /\ hist.fires >= 3
    /\ hist.attempts = 1
    /\ tick_work.pending = 0
    /\ tick_work.pc = "idle"

(* C12. seq_cnt is 0 at the start and equals the number of production       *)
(* attempts made (modulo 2^SeqBits). The only step that changes it is the   *)
(* producer's atomic_inc, which adds one; the put that follows leaves it    *)
(* alone whether it succeeds or fails, and so do get, set, attack, the      *)
(* consumer and the timer.                                                  *)
C12_SeqCountsAttempts ==
    /\ [](seq_cnt = hist.attempts % SeqMod)
    /\ [][seq_cnt' # seq_cnt
            => /\ tick_work.pc = "build"
               /\ tick_work.m.seq = -1
               /\ tick_work'.m.seq = seq_cnt
               /\ seq_cnt' = (seq_cnt + 1) % SeqMod]_vars
    /\ [][(ReadyToPut /\ tick_work'.pc = "idle") => seq_cnt' = seq_cnt]_vars
C12_Witness ==
    /\ hist.drops > 0
    /\ hist.sets_ok > 0
    /\ hist.nrecv > 0
    /\ seq_cnt = hist.attempts % SeqMod

(* C13. A put made while counter_q holds 16 messages is possible at once,   *)
(* discards the message being put (the queue is the same sequence after     *)
(* it), counts as one drop and ends the handler with the work item as it    *)
(* was, so that a queued item can run next.                                 *)
PutOnFull ==
    /\ ReadyToPut
    /\ Len(counter_q) = COUNTER_Q_MAX_MSGS
    /\ tick_work'.pc # "build"
C13_DropNewestOnFull ==
    /\ [][PutOnFull
            => /\ counter_q' = counter_q
               /\ tick_work' = [tick_work EXCEPT !.pc = "idle", !.m = NoMsg]
               /\ hist'.drops = hist.drops + 1
               /\ hist'.enq = hist.enq]_vars
    /\ []((ReadyToPut /\ Len(counter_q) = COUNTER_Q_MAX_MSGS)
            => ENABLED tick_work_handler_put)
    /\ []((hist.drops > 0 /\ tick_work.pc = "idle" /\ tick_work.pending > 0)
            => ENABLED tick_work_run)
C13_Witness ==
    /\ hist.drops >= 2
    /\ Len(counter_q) = COUNTER_Q_MAX_MSGS
    /\ tick_work.pc = "idle"

(* C14. Every failed enqueue increments a drop counter: the step of a put   *)
(* on a full queue adds one to one of the program's integer objects         *)
(* (seq_cnt and period_ms are the only ones it has).                        *)
C14_DropCounted ==
    [][PutOnFull
         => (seq_cnt' = (seq_cnt + 1) % SeqMod \/ period_ms' = period_ms + 1)
       ]_vars

(* C15. counter_q is first in, first out: it always holds the messages put  *)
(* successfully and not yet received, in the order they were put, and each  *)
(* message the consumer receives is the next one of that sequence, with the *)
(* same seq and ts_ms.                                                      *)
C15_StrictFifo ==
    /\ [](hist.nrecv <= Len(hist.enq))
    /\ [](counter_q = SubSeq(hist.enq, hist.nrecv + 1, Len(hist.enq)))
    /\ [][hist'.nrecv = hist.nrecv + 1
            => consumer'.m = hist.enq[hist'.nrecv]]_vars
C15_Witness ==
    /\ hist.nrecv >= 2
    /\ hist.drops > 0
    /\ Len(counter_q) > 0

(* C16. The grants made at startup never change, and the consumer's grants  *)
(* contain counter_q and not secret_q.                                      *)
C16_GrantsFixed ==
    /\ [][grants' = grants]_vars
    /\ []("counter_q" \in grants["consumer_user"])
    /\ []("secret_q" \notin grants["consumer_user"])
C16_Witness ==
    /\ hist.attacked
    /\ hist.sets_ok > 0
    /\ hist.nrecv > 0
    /\ "counter_q" \in grants["consumer_user"]

(* C17. The consumer serves for ever: under fair scheduling the n-th        *)
(* message put into counter_q is eventually received and the consumer is    *)
(* back at its k_msgq_get, and the consumer is never anywhere but in its    *)
(* loop.                                                                    *)
C17_ConsumerServes ==
    /\ \A n \in 1..FairFires :
         (Len(hist.enq) >= n) ~> (hist.nrecv >= n /\ consumer.pc = "get")
    /\ [](consumer.pc \in {"get", "log"})
C17_Witness ==
    /\ hist.nrecv >= 2
    /\ consumer.pc = "get"
    /\ counter_q = <<>>

(* C18. Conservation: the production attempts are the messages received     *)
(* plus those in counter_q plus those dropped, and the attempts never       *)
(* exceed the timer expiries.                                               *)
C18_Conservation ==
    /\ hist.attempts = hist.nrecv + Len(counter_q) + hist.drops
    /\ hist.attempts <= hist.fires
(* C18 as amended: the same, counting also the message the producer has     *)
(* stamped with its seq and not yet put.                                    *)
InFlight == IF tick_work.pc = "build" /\ tick_work.m.seq # -1 THEN 1 ELSE 0
C18_ConservationWithInFlight ==
    /\ hist.attempts = hist.nrecv + Len(counter_q) + hist.drops + InFlight
    /\ hist.attempts <= hist.fires
C18_Witness ==
    /\ InFlight = 1
    /\ hist.drops > 0
    /\ hist.nrecv > 0

(* C19. The k-th production attempt stamps its message with (k-1) modulo    *)
(* 2^SeqBits, the value of the counter before the increment: the first      *)
(* message carries 0, every seq in counter_q is below seq_cnt while the     *)
(* counter has not wrapped, and the attempt after 2^SeqBits attempts        *)
(* carries 0 again.                                                         *)
C19_SeqOfKthAttempt ==
    /\ [][hist'.attempts = hist.attempts + 1
            => tick_work'.m.seq = hist.attempts % SeqMod]_vars
    /\ [](hist.enq # <<>> => hist.enq[1].seq = 0)
    /\ [](hist.attempts < SeqMod
            => \A i \in 1..Len(counter_q) : counter_q[i].seq < seq_cnt)
    /\ []((hist.attempts = SeqMod + 1 /\ tick_work.m.seq # -1)
            => tick_work.m.seq = 0)
C19_Witness ==
    /\ hist.attempts = SeqMod + 1
    /\ tick_work.pc = "build"
    /\ tick_work.m.seq = 0

(* C20. secret_q is always empty, and no step of the attack command         *)
(* changes period_ms, seq_cnt, the timer or counter_q.                      *)
AttackStep == shell' # shell /\ shell'.argv = <<"attack">>
C20_AttackTouchesNothing ==
    /\ [](secret_q = <<>>)
    /\ [][AttackStep
            => UNCHANGED <<period_ms, seq_cnt, tick_timer, counter_q>>]_vars
C20_Witness ==
    /\ hist.attacked
    /\ hist.sets_ok > 0
    /\ period_ms # PERIOD_MS_INIT
    /\ Len(counter_q) > 0

=============================================================================
